---- MODULE Spec2Model ----
(***************************************************************************)
(* FAN5345 single-wire backlight driver (src/fan5345/fan5345_bl.c).        *)
(*                                                                         *)
(* The driver keeps cur_level, its belief about the IC's brightness step,  *)
(* and pulses one GPIO line to step the IC down.  Two threads can be in    *)
(* the driver: "drv", the platform bus running fan5345_probe and           *)
(* fan5345_remove, and "req", a caller of the registered update_status     *)
(* operation that has written bl->props.brightness.  Each thread's         *)
(* position is the source line it is about to execute.                     *)
(*                                                                         *)
(* backlight_update_status (linux/backlight.h) holds bl->update_lock       *)
(* around the update_status operation; the writes of props.brightness at   *)
(* lines 150 and 167 and by the requester are made before that lock is     *)
(* taken.  props.state and props.power (lines 152, 153, 166) are written   *)
(* but never read by the driver and are left out.  The failure returns of  *)
(* fan5345_probe (lines 108, 113, 120, 142) leave no device behind and are *)
(* left out.                                                               *)
(***************************************************************************)
EXTENDS Integers, FiniteSets

VARIABLES
    cur_level,   \* fanbl->cur_level (int)
    brightness,  \* bl->props.brightness (int)
    gpio,        \* logical value of fanbl->level_gpio: 0 low, 1 high
    bound,       \* the backlight device is registered
    def_level,   \* fan5345_probe's local def_level, after the clamp
    pc,          \* per thread: the line it is about to execute
    op,          \* per thread: the entry point it is running
    dt_level,    \* history: the "default-level" property as read at line 119
    start,       \* history: cur_level when the current set_level was entered
    target,      \* history: props.brightness when it was entered
    pulses,      \* history: rising edges driven by the current set_level
    disabled,    \* history: fan5345_disable ran in the current set_level
    calls,       \* history: set_level calls made by drv's current entry point
    last_done,   \* history: {target of the last set_level that returned}
    before,      \* history: cur_level read by the last DIR of this set_level
    decs,        \* history: DIR executions of the current set_level
    got,         \* {value fan5345_get_level returned to the waiting caller}
    ic_step      \* the IC's own step: 0 off, 1..32 lit

vars == <<cur_level, brightness, gpio, bound, def_level, pc, op,
          dt_level, start, target, pulses, disabled, calls, last_done,
          before, decs, got, ic_step>>

NUM_STEPS == 32
MIN_STEP == 1

\* How far below 0 and above NUM_STEPS a requested brightness is drawn.
Below == 1
Above == 1
\* How far above NUM_STEPS the default-level property is drawn.
AboveDef == 8
\* The history counters stop counting here.
MaxCount == 40

Threads == {"drv", "req"}

\* Brightness values a caller may write before backlight_update_status.
Requests == (0 - Below)..(NUM_STEPS + Above)
\* Values of the u32 "default-level" property.
DefLevels == 0..(NUM_STEPS + AboveDef)
\* The smaller input sets of the concurrent specification.
ConcRequests == {0, 1, 2, NUM_STEPS - 1, NUM_STEPS}
ConcDefLevels == {0, 2, NUM_STEPS, NUM_STEPS + AboveDef}

SetLevelLines == {"l57", "l47", "l48", "l50", "l61", "l63", "l65", "l66",
                  "l68", "l70", "l73", "l77"}

InSetLevel(t) == pc[t] \in SetLevelLines

Count(n) == IF n < MaxCount THEN n + 1 ELSE MaxCount

Goto(t, l) == pc' = [pc EXCEPT ![t] = l]

Init ==
    /\ cur_level = 0
    /\ brightness = 0
    /\ gpio = 0
    /\ bound = FALSE
    /\ def_level = 0
    /\ pc = [t \in Threads |-> "idle"]
    /\ op = [t \in Threads |-> "none"]
    /\ dt_level = 0
    /\ start = 0
    /\ target = 0
    /\ pulses = 0
    /\ disabled = FALSE
    /\ calls = 0
    /\ last_done = {}
    /\ before = 0
    /\ decs = 0
    /\ got = {}
    /\ ic_step = 0

----
\* The IC beside the driver, as its protocol is described: a rising edge
\* turns an IC that is off on at step NUM_STEPS and steps a lit IC down by
\* one, from step 1 around to NUM_STEPS; a line held low for 1 ms shuts the
\* IC off, as does the line
\* requested low at attach (GPIOD_OUT_LOW); a low phase of 500 ns does not.
IcRisingEdge(s) == IF s <= 1 THEN NUM_STEPS ELSE s - 1
IcLowHold(s) == 0

\* fan5345_probe, lines 107-147: the clamp of def_level, the GPIO requested
\* as GPIOD_OUT_LOW, props zeroed, cur_level = 0, the device registered.
\* The clamp of line 125 left out.
ClampDefaultNone(d) == d

ClampDefault(d) == IF d > NUM_STEPS THEN NUM_STEPS ELSE d

fan5345_probe(D) ==
    /\ pc["drv"] = "idle"
    /\ ~bound
    /\ \E d \in D :
        /\ dt_level' = d
        /\ def_level' = ClampDefault(d)
    /\ gpio' = 0
    /\ brightness' = 0
    /\ cur_level' = 0
    /\ bound' = TRUE
    /\ Goto("drv", "l149")
    /\ op' = [op EXCEPT !["drv"] = "probe"]
    /\ pulses' = 0
    /\ disabled' = FALSE
    /\ calls' = 0
    /\ last_done' = {}
    /\ start' = 0
    /\ target' = 0
    /\ before' = 0
    /\ decs' = 0
    /\ ic_step' = IcLowHold(ic_step)
    /\ got' = got

\* line 149: if(def_level)
probe_test_default ==
    /\ pc["drv"] = "l149"
    /\ IF def_level # 0 THEN Goto("drv", "l150") ELSE Goto("drv", "l156")
    /\ UNCHANGED <<cur_level, brightness, gpio, bound, def_level, op,
                   dt_level, start, target, pulses, disabled, calls, last_done,
                   ic_step, before, decs, got>>

\* line 150: bl->props.brightness = def_level; then backlight_update_status
probe_set_default ==
    /\ pc["drv"] = "l150"
    /\ brightness' = def_level
    /\ Goto("drv", "lock")
    /\ UNCHANGED <<cur_level, gpio, bound, def_level, op,
                   dt_level, start, target, pulses, disabled, calls, last_done,
                   ic_step, before, decs, got>>

\* lines 156-159: return err
probe_return ==
    /\ pc["drv"] = "l156"
    /\ Goto("drv", "idle")
    /\ op' = [op EXCEPT !["drv"] = "none"]
    /\ def_level' = 0
    /\ dt_level' = 0
    /\ UNCHANGED <<cur_level, brightness, gpio, bound,
                   start, target, pulses, disabled, calls, last_done,
                   ic_step, before, decs, got>>

\* A caller of the update_status operation (lines 85-89): it has written the
\* requested brightness and calls backlight_update_status.
request(R) ==
    /\ pc["req"] = "idle"
    /\ bound
    /\ \E v \in R : brightness' = v
    /\ Goto("req", "lock")
    /\ op' = [op EXCEPT !["req"] = "request"]
    /\ UNCHANGED <<cur_level, gpio, bound, def_level,
                   dt_level, start, target, pulses, disabled, calls, last_done,
                   ic_step, before, decs, got>>

\* A caller of the get_brightness operation (lines 85-89).
get_level_call ==
    /\ pc["req"] = "idle"
    /\ bound
    /\ Goto("req", "l82")
    /\ op' = [op EXCEPT !["req"] = "get"]
    /\ UNCHANGED <<cur_level, brightness, gpio, bound, def_level,
                   dt_level, start, target, pulses, disabled, calls, last_done,
                   ic_step, before, decs, got>>

\* fan5345_get_level that also sets the tracker to the requested level.
get_level_sync ==
    /\ pc["req"] = "l82"
    /\ got' = {brightness}
    /\ cur_level' = brightness
    /\ Goto("req", "l83")
    /\ UNCHANGED <<brightness, gpio, bound, def_level, op,
                   dt_level, start, target, pulses, disabled, calls, last_done,
                   ic_step, before, decs>>

\* fan5345_get_level returning cur_level instead of the requested level.
get_level_actual ==
    /\ pc["req"] = "l82"
    /\ got' = {cur_level}
    /\ Goto("req", "l83")
    /\ UNCHANGED <<cur_level, brightness, gpio, bound, def_level, op,
                   dt_level, start, target, pulses, disabled, calls, last_done,
                   ic_step, before, decs>>

\* line 82: return bl->props.brightness
fan5345_get_level ==
    /\ pc["req"] = "l82"
    /\ got' = {brightness}
    /\ Goto("req", "l83")
    /\ UNCHANGED <<cur_level, brightness, gpio, bound, def_level, op,
                   dt_level, start, target, pulses, disabled, calls, last_done,
                   ic_step, before, decs>>

\* The caller has taken the returned value.
get_level_done ==
    /\ pc["req"] = "l83"
    /\ got' = {}
    /\ Goto("req", "idle")
    /\ op' = [op EXCEPT !["req"] = "none"]
    /\ UNCHANGED <<cur_level, brightness, gpio, bound, def_level,
                   dt_level, start, target, pulses, disabled, calls, last_done,
                   ic_step, before, decs>>

\* fan5345_remove without the write of props.brightness.
remove_keep_brightness ==
    /\ pc["drv"] = "idle"
    /\ bound
    /\ Goto("drv", "lock")
    /\ op' = [op EXCEPT !["drv"] = "remove"]
    /\ calls' = 0
    /\ UNCHANGED <<cur_level, brightness, gpio, bound, def_level,
                   dt_level, start, target, pulses, disabled, last_done,
                   ic_step, before, decs, got>>

\* fan5345_remove, lines 165-167: props.brightness = 0
fan5345_remove ==
    /\ pc["drv"] = "idle"
    /\ bound
    /\ brightness' = 0
    /\ Goto("drv", "lock")
    /\ op' = [op EXCEPT !["drv"] = "remove"]
    /\ calls' = 0
    /\ UNCHANGED <<cur_level, gpio, bound, def_level,
                   dt_level, start, target, pulses, disabled, last_done,
                   ic_step, before, decs, got>>

\* lines 170-173: return 0; the devm resources (device, GPIO) are released
\* once no caller is left inside the device's operations.
remove_return ==
    /\ pc["drv"] = "l170"
    /\ pc["req"] = "idle"
    /\ bound' = FALSE
    /\ Goto("drv", "idle")
    /\ op' = [op EXCEPT !["drv"] = "none"]
    /\ UNCHANGED <<cur_level, brightness, gpio, def_level,
                   dt_level, start, target, pulses, disabled, calls, last_done,
                   ic_step, before, decs, got>>

----
\* backlight_update_status: mutex_lock(&bd->update_lock), then the call of
\* ops->update_status = fan5345_set_level.
\* backlight_update_status without its mutex.
LockFreeAlways(t) == TRUE

LockFree(t) == \A u \in Threads \ {t} : ~InSetLevel(u)

update_status_enter(t) ==
    /\ pc[t] = "lock"
    /\ LockFree(t)
    /\ Goto(t, "l57")
    /\ start' = cur_level
    /\ target' = brightness
    /\ pulses' = 0
    /\ disabled' = FALSE
    /\ calls' = IF t = "drv" THEN Count(calls) ELSE calls
    /\ before' = 0
    /\ decs' = 0
    /\ UNCHANGED <<cur_level, brightness, gpio, bound, def_level, op,
                   dt_level, last_done,
                   ic_step, got>>

\* line 57: if(bl->props.brightness < MIN_STEP)
set_level_test_off(t) ==
    /\ pc[t] = "l57"
    /\ IF brightness < MIN_STEP THEN Goto(t, "l47") ELSE Goto(t, "l61")
    /\ UNCHANGED <<cur_level, brightness, gpio, bound, def_level, op,
                   dt_level, start, target, pulses, disabled, calls, last_done,
                   ic_step, before, decs, got>>

\* fan5345_disable without the reset of cur_level.
disable_reset_skip(t) ==
    /\ pc[t] = "l47"
    /\ disabled' = TRUE
    /\ Goto(t, "l48")
    /\ UNCHANGED <<cur_level, brightness, gpio, bound, def_level, op,
                   dt_level, start, target, pulses, calls, last_done,
                   ic_step, before, decs, got>>

\* line 47: fanbl->cur_level = 0
disable_reset(t) ==
    /\ pc[t] = "l47"
    /\ cur_level' = 0
    /\ disabled' = TRUE
    /\ Goto(t, "l48")
    /\ UNCHANGED <<brightness, gpio, bound, def_level, op,
                   dt_level, start, target, pulses, calls, last_done,
                   ic_step, before, decs, got>>

\* fan5345_disable without the write of the GPIO.
disable_low_skip(t) ==
    /\ pc[t] = "l48"
    /\ Goto(t, "l50")
    /\ UNCHANGED <<cur_level, brightness, gpio, bound, def_level, op,
                   dt_level, start, target, pulses, disabled, calls, last_done,
                   ic_step, before, decs, got>>

\* line 48: gpiod_set_value_cansleep(level_gpio, false)
disable_low(t) ==
    /\ pc[t] = "l48"
    /\ gpio' = 0
    /\ Goto(t, "l50")
    /\ UNCHANGED <<cur_level, brightness, bound, def_level, op,
                   dt_level, start, target, pulses, disabled, calls, last_done,
                   ic_step, before, decs, got>>

\* line 50: mdelay(1), then the return to line 61
disable_hold(t) ==
    /\ pc[t] = "l50"
    /\ ic_step' = IF gpio = 0 THEN IcLowHold(ic_step) ELSE ic_step
    /\ Goto(t, "l61")
    /\ UNCHANGED <<cur_level, brightness, gpio, bound, def_level, op,
                   dt_level, start, target, pulses, disabled, calls, last_done,
                   before, decs, got>>

\* The loop as a do-while: the first pulse is made unconditionally.
LoopCondDoWhile == cur_level # brightness \/ pulses = 0

\* line 61: while(fanbl->cur_level != bl->props.brightness)
LoopCond == cur_level # brightness

set_level_loop(t) ==
    /\ pc[t] = "l61"
    /\ IF LoopCond THEN Goto(t, "l63") ELSE Goto(t, "l77")
    /\ UNCHANGED <<cur_level, brightness, gpio, bound, def_level, op,
                   dt_level, start, target, pulses, disabled, calls, last_done,
                   ic_step, before, decs, got>>

\* The pulse without its falling edge.
pulse_low_skip(t) ==
    /\ pc[t] = "l63"
    /\ Goto(t, "l65")
    /\ UNCHANGED <<cur_level, brightness, gpio, bound, def_level, op,
                   dt_level, start, target, pulses, disabled, calls, last_done,
                   ic_step, before, decs, got>>

\* line 63: gpiod_set_value_cansleep(level_gpio, false)
pulse_low(t) ==
    /\ pc[t] = "l63"
    /\ gpio' = 0
    /\ Goto(t, "l65")
    /\ UNCHANGED <<cur_level, brightness, bound, def_level, op,
                   dt_level, start, target, pulses, disabled, calls, last_done,
                   ic_step, before, decs, got>>

\* line 65: ndelay(500)
pulse_low_wait(t) ==
    /\ pc[t] = "l65"
    /\ Goto(t, "l66")
    /\ UNCHANGED <<cur_level, brightness, gpio, bound, def_level, op,
                   dt_level, start, target, pulses, disabled, calls, last_done,
                   ic_step, before, decs, got>>

\* line 66: gpiod_set_value_cansleep(level_gpio, true)
pulse_high(t) ==
    /\ pc[t] = "l66"
    /\ gpio' = 1
    /\ pulses' = IF gpio = 0 THEN Count(pulses) ELSE pulses
    /\ ic_step' = IF gpio = 0 THEN IcRisingEdge(ic_step) ELSE ic_step
    /\ Goto(t, "l68")
    /\ UNCHANGED <<cur_level, brightness, bound, def_level, op,
                   dt_level, start, target, disabled, calls, last_done,
                   before, decs, got>>

\* line 68: ndelay(500)
pulse_high_wait(t) ==
    /\ pc[t] = "l68"
    /\ Goto(t, "l70")
    /\ UNCHANGED <<cur_level, brightness, gpio, bound, def_level, op,
                   dt_level, start, target, pulses, disabled, calls, last_done,
                   ic_step, before, decs, got>>

\* DIR stepping by two.
DIRTwice(x) == x - 2

\* lines 35, 70: DIR(fanbl->cur_level), that is cur_level--
DIR(x) == x - 1

step_down(t) ==
    /\ pc[t] = "l70"
    /\ cur_level' = DIR(cur_level)
    /\ before' = cur_level
    /\ decs' = Count(decs)
    /\ Goto(t, "l73")
    /\ UNCHANGED <<brightness, gpio, bound, def_level, op,
                   dt_level, start, target, pulses, disabled, calls, last_done,
                   ic_step, got>>

\* Roll-overs that miss NUM_STEPS by one, or that let 0 through.
RollOverShort(x) == IF x <= 0 THEN NUM_STEPS - 1 ELSE x
RollOverPast(x) == IF x <= 0 THEN NUM_STEPS + 1 ELSE x
RollOverStrict(x) == IF x < 0 THEN NUM_STEPS ELSE x

\* lines 73-74: if(fanbl->cur_level <= 0) fanbl->cur_level = NUM_STEPS
RollOver(x) == IF x <= 0 THEN NUM_STEPS ELSE x

roll_over(t) ==
    /\ pc[t] = "l73"
    /\ cur_level' = RollOver(cur_level)
    /\ Goto(t, "l61")
    /\ UNCHANGED <<brightness, gpio, bound, def_level, op,
                   dt_level, start, target, pulses, disabled, calls, last_done,
                   ic_step, before, decs, got>>

\* line 77: return 0; backlight_update_status unlocks and returns to the
\* caller: line 152 of fan5345_probe, line 170 of fan5345_remove, or the
\* requester.
AfterUpdate(t) ==
    IF op[t] = "probe" THEN "l156"
    ELSE IF op[t] = "remove" THEN "l170"
    ELSE "idle"

update_status_return(t) ==
    /\ pc[t] = "l77"
    /\ Goto(t, AfterUpdate(t))
    /\ op' = [op EXCEPT ![t] = IF op[t] = "request" THEN "none" ELSE op[t]]
    /\ last_done' = {target}
    /\ UNCHANGED <<cur_level, brightness, gpio, bound, def_level,
                   dt_level, start, target, pulses, disabled, calls,
                   ic_step, before, decs, got>>

----
set_level_step(t) ==
    \/ update_status_enter(t)
    \/ set_level_test_off(t)
    \/ disable_reset(t)
    \/ disable_low(t)
    \/ disable_hold(t)
    \/ set_level_loop(t)
    \/ pulse_low(t)
    \/ pulse_low_wait(t)
    \/ pulse_high(t)
    \/ pulse_high_wait(t)
    \/ step_down(t)
    \/ roll_over(t)
    \/ update_status_return(t)

\* The other thread is outside the driver.
Alone(t) == \A u \in Threads \ {t} : pc[u] = "idle"

\* One caller at a time: an entry point is called only while no other one is
\* running, and runs from its call to its return.
Next ==
    \/ Alone("drv") /\ fan5345_probe(DefLevels)
    \/ Alone("req") /\ request(Requests)
    \/ Alone("drv") /\ fan5345_remove
    \/ Alone("req") /\ get_level_call
    \/ fan5345_get_level
    \/ get_level_done
    \/ probe_test_default
    \/ probe_set_default
    \/ probe_return
    \/ remove_return
    \/ \E t \in Threads : set_level_step(t)

Spec == Init /\ [][Next]_vars

\* Both threads run freely.
ConcNext ==
    \/ fan5345_probe(ConcDefLevels)
    \/ probe_test_default
    \/ probe_set_default
    \/ probe_return
    \/ request(ConcRequests)
    \/ get_level_call
    \/ fan5345_get_level
    \/ get_level_done
    \/ fan5345_remove
    \/ remove_return
    \/ \E t \in Threads : set_level_step(t)

ConcSpec == Init /\ [][ConcNext]_vars

----
\* Levels that can be lit, and levels that can be requested.
LitLevels == MIN_STEP..NUM_STEPS
Levels == 0..NUM_STEPS

\* Lines of fan5345_set_level's loop body, and the lines that write the GPIO.
PulseLines == {"l63", "l65", "l66", "l68", "l70", "l73"}
GpioLines == {"l48", "l63", "l66"}

AtRest == \A t \in Threads : ~InSetLevel(t)

\* C1: a set_level entered with cur_level and props.brightness both in
\* 1..32 never drives more than 32 pulses, and at its return cur_level is
\* the requested brightness.
C1_ValidApplyTerminates ==
    \A t \in Threads :
        InSetLevel(t) /\ start \in LitLevels /\ target \in LitLevels =>
            /\ pulses <= NUM_STEPS
            /\ pc[t] = "l63" => pulses < NUM_STEPS
            /\ pc[t] = "l77" => cur_level = target

C1_Witness ==
    /\ pc["req"] = "l77"
    /\ start = NUM_STEPS
    /\ target = MIN_STEP
    /\ pulses = NUM_STEPS - 1
    /\ cur_level = MIN_STEP

\* C2: a set_level entered with props.brightness above 32 is rejected
\* before any hardware access: it reaches no line that writes the GPIO,
\* drives no pulse and leaves cur_level as it was.
C2_RejectAboveMax ==
    \A t \in Threads :
        InSetLevel(t) /\ target > NUM_STEPS =>
            /\ pc[t] \notin GpioLines
            /\ pulses = 0
            /\ cur_level = start

\* C3: a set_level entered with props.brightness below 1, negative values
\* included, behaves as one entered with 0: it never enters the pulse loop
\* and returns with cur_level = 0 and the line low.
C3_BelowMinIsShutdown ==
    \A t \in Threads :
        InSetLevel(t) /\ target < MIN_STEP /\ start \in Levels =>
            /\ pc[t] \notin PulseLines
            /\ pulses = 0
            /\ pc[t] = "l77" => disabled /\ cur_level = 0 /\ gpio = 0

\* C4: a set_level entered with props.brightness = 0, from any cur_level in
\* 0..32, runs fan5345_disable, never enters the pulse loop, drives no
\* rising edge, and returns with cur_level = 0 and the line low.
C4_ShutdownNoPulse ==
    \A t \in Threads :
        InSetLevel(t) /\ target = 0 /\ start \in Levels =>
            /\ pc[t] \notin PulseLines
            /\ pulses = 0
            /\ pc[t] \in {"l61", "l77"} => disabled /\ cur_level = 0 /\ gpio = 0

C4_Witness ==
    /\ pc["req"] = "l77"
    /\ target = 0
    /\ start = 10
    /\ disabled
    /\ cur_level = 0
    /\ gpio = 0

\* C5: a set_level entered with cur_level = start and props.brightness =
\* target, both in 1..32, returns after exactly start - target pulses when
\* start >= target and start + 32 - target pulses when start < target.
PulsesNeeded(s, g) == IF s >= g THEN s - g ELSE s + NUM_STEPS - g

C5_ExactPulseCount ==
    \A t \in Threads :
        InSetLevel(t) /\ start \in LitLevels /\ target \in LitLevels =>
            /\ pulses <= PulsesNeeded(start, target)
            /\ pc[t] = "l77" => pulses = PulsesNeeded(start, target)

C5_Witness ==
    /\ pc["req"] = "l77"
    /\ start = 5
    /\ target = NUM_STEPS
    /\ pulses = 5
    /\ cur_level = NUM_STEPS

\* C6: a set_level whose requested brightness x in 0..32 is the one of the
\* set_level that returned just before it drives no pulse and returns with
\* cur_level = x.
C6_Idempotent ==
    \A t \in Threads :
        InSetLevel(t) /\ last_done = {target} /\ target \in Levels =>
            /\ pulses = 0
            /\ pc[t] \notin PulseLines
            /\ pc[t] = "l77" => cur_level = target

C6_Witness ==
    /\ pc["req"] = "l77"
    /\ last_done = {target}
    /\ target = 7
    /\ op["drv"] = "none"
    /\ cur_level = 7
    /\ pulses = 0

\* C7: whenever no set_level is running, cur_level is within 0..32.
C7_LevelInRangeAtRest == AtRest => cur_level \in Levels

C7_Witness ==
    /\ AtRest
    /\ bound
    /\ last_done = {NUM_STEPS}
    /\ cur_level = NUM_STEPS
    /\ pulses > 0

C9_NoRetargetInFlight ==
    \A t \in Threads :
        InSetLevel(t) /\ target \in Levels /\ pulses > 0 =>
            /\ pulses <= NUM_STEPS
            /\ pc[t] = "l77" => cur_level = target

\* C10: during fan5345_probe def_level is min(default-level, 32); at line
\* 149 cur_level is 0 and the line is low; at the return, a non-zero
\* def_level has been applied by exactly one set_level call and cur_level
\* equals it, and a zero def_level has made no call and driven no pulse.
C10_Attach ==
    op["drv"] = "probe" =>
        /\ def_level = (IF dt_level < NUM_STEPS THEN dt_level ELSE NUM_STEPS)
        /\ pc["drv"] = "l149" => cur_level = 0 /\ gpio = 0
        /\ pc["drv"] = "l156" =>
            /\ cur_level = def_level
            /\ calls = (IF def_level # 0 THEN 1 ELSE 0)
            /\ def_level = 0 => pulses = 0 /\ gpio = 0

C10_Witness ==
    /\ pc["drv"] = "l156"
    /\ dt_level = NUM_STEPS + AboveDef
    /\ def_level = NUM_STEPS
    /\ cur_level = NUM_STEPS
    /\ calls = 1
    /\ pulses = 1

\* C11: fan5345_remove calls set_level at most once, with target 0; that
\* call never enters the pulse loop; at line 170 exactly one call has been
\* made, cur_level is 0, the line is low and no rising edge was driven.
C11_Detach ==
    op["drv"] = "remove" =>
        /\ calls <= 1
        /\ InSetLevel("drv") =>
            target = 0 /\ pulses = 0 /\ pc["drv"] \notin PulseLines
        /\ pc["drv"] = "l170" =>
            calls = 1 /\ disabled /\ cur_level = 0 /\ gpio = 0 /\ pulses = 0

C11_Witness ==
    /\ pc["drv"] = "l170"
    /\ start = NUM_STEPS
    /\ calls = 1
    /\ cur_level = 0
    /\ gpio = 0

\* C12: the step of fan5345_get_level returns props.brightness, and no
\* step of a read-back changes cur_level, the line or props.brightness.
ReadBackStep ==
    /\ pc'["req"] # pc["req"]
    /\ pc'["req"] \in {"l82", "l83"} \/ pc["req"] = "l83"

C12_ReadBack ==
    [][/\ ReadBackStep => UNCHANGED <<cur_level, gpio, brightness>>
       /\ pc["req"] = "l82" /\ pc'["req"] = "l83" => got' = {brightness}]_vars

C12_Witness ==
    /\ pc["req"] = "l83"
    /\ brightness = NUM_STEPS
    /\ got = {NUM_STEPS}
    /\ cur_level # NUM_STEPS

\* C13: whenever no set_level is running, the IC's step equals cur_level.
C13_IcMatchesTracker == AtRest => ic_step = cur_level

C13_Witness ==
    /\ AtRest
    /\ bound
    /\ pulses > 1
    /\ cur_level = 5
    /\ ic_step = 5

\* C14: after DIR at line 70 cur_level is one less than it was; from then
\* until the next DIR, the loop test included, it is n - 1 for n in 2..32
\* and 32 for n <= 1, and never below 1.
C14_Wraparound ==
    \A t \in Threads :
        InSetLevel(t) /\ decs > 0 =>
            /\ pc[t] = "l73" => cur_level = before - 1
            /\ pc[t] # "l73" =>
                /\ cur_level >= MIN_STEP
                /\ cur_level = (IF before \in 2..NUM_STEPS THEN before - 1
                                ELSE NUM_STEPS)

C14_Witness ==
    /\ pc["req"] = "l61"
    /\ decs > 1
    /\ before = MIN_STEP
    /\ cur_level = NUM_STEPS

\* C15 as stated: in fan5345_disable cur_level is reset last, so it still
\* holds a lit level while the line is being driven low and held.
C15_ResetLast ==
    \A t \in Threads :
        pc[t] \in {"l48", "l50"} /\ start \in LitLevels => cur_level # 0

\* C15 as amended: in fan5345_disable cur_level is reset to 0 first, then
\* the line is driven low, then held; the reset is done before the line is
\* written, and the line is low before and after the hold.
C15_ResetFirst ==
    \A t \in Threads :
        /\ pc[t] = "l48" => disabled /\ cur_level = 0
        /\ pc[t] = "l50" => disabled /\ cur_level = 0 /\ gpio = 0
        /\ pc[t] = "l61" /\ disabled /\ pulses = 0 => cur_level = 0 /\ gpio = 0

C15_Witness ==
    /\ pc["req"] = "l48"
    /\ start = 10
    /\ cur_level = 0
    /\ gpio = 1

\* C16: in every iteration the line is low during the first wait and high
\* during the second, and DIR runs after the rising edge: the DIR count
\* equals the pulse count except between the rising edge and DIR, where it
\* is one less.
C16_PulseOrder ==
    \A t \in Threads :
        InSetLevel(t) /\ pulses < MaxCount =>
            /\ pc[t] \in {"l65", "l66"} => gpio = 0
            /\ pc[t] \in {"l68", "l70"} => gpio = 1 /\ decs + 1 = pulses
            /\ pc[t] \notin {"l68", "l70"} => decs = pulses

C16_Witness ==
    /\ pc["req"] = "l70"
    /\ gpio = 1
    /\ pulses = 3
    /\ decs = 2

\* C17: once the device is attached, every step that changes cur_level is
\* the reset of line 47, the DIR of line 70 following a rising edge, or the
\* roll-over of line 74.
C17_OnlyPulseOrShutdown ==
    [][cur_level' # cur_level =>
        \/ ~bound /\ bound'
        \/ \E t \in Threads :
            \/ pc[t] = "l47" /\ pc'[t] = "l48" /\ cur_level' = 0
            \/ /\ pc[t] = "l70" /\ pc'[t] = "l73"
               /\ cur_level' = cur_level - 1
               /\ pulses = decs + 1 \/ pulses = MaxCount
            \/ /\ pc[t] = "l73" /\ pc'[t] = "l61"
               /\ cur_level <= 0
               /\ cur_level' = NUM_STEPS]_vars

C17_Witness ==
    /\ pc["req"] = "l77"
    /\ op["drv"] = "none"
    /\ target \in LitLevels
    /\ start = target
    /\ cur_level = target
    /\ pulses = 0
    /\ ~disabled

\* C18: a set_level entered with cur_level = 0 and props.brightness = t in
\* 1..32 has cur_level = 32 after its first pulse, never drives more than
\* 33 - t pulses, and returns after exactly 33 - t with cur_level = t.
C18_FromOff ==
    \A t \in Threads :
        InSetLevel(t) /\ start = 0 /\ target \in LitLevels =>
            /\ pulses <= NUM_STEPS + 1 - target
            /\ pc[t] = "l61" /\ decs = 1 => cur_level = NUM_STEPS
            /\ pc[t] = "l77" =>
                cur_level = target /\ pulses = NUM_STEPS + 1 - target

C18_Witness ==
    /\ pc["req"] = "l77"
    /\ start = 0
    /\ target = MIN_STEP
    /\ cur_level = MIN_STEP
    /\ pulses = NUM_STEPS

\* C19: whenever no set_level is running, the line is low exactly when
\* cur_level is 0.
C19_LineMatchesLevel == AtRest => (gpio = 0 <=> cur_level = 0)

C19_Witness ==
    /\ AtRest
    /\ bound
    /\ disabled
    /\ start = NUM_STEPS
    /\ gpio = 0
    /\ cur_level = 0

====
